---------------------------- MODULE Spec2Model ----------------------------
(***************************************************************************)
(* A model of the sinum crate: SI prefixes (prefix.rs), units (unit.rs),   *)
(* numbers with a prefix (number.rs, Num) and quantities (quantity.rs,     *)
(* Qty).                                                                   *)
(*                                                                         *)
(* f64 values are modelled as exact numbers                                *)
(*      n/d * 10^e * AU^s[1] * LY^s[2] * PC^s[3]                           *)
(* kept in a unique normal form, so structural equality is equality of the *)
(* represented number.  AU, LY and PC stand for the three factors of       *)
(* Unit::factor that are no power of ten (149_597_870_700.0,               *)
(* 9_460_730_472_580_800.0 and 30.85677581e15); they do not fit the        *)
(* integers of the model checker and are carried as symbols.  Rounding of  *)
(* f64 arithmetic is not modelled: every operation is computed exactly.    *)
(***************************************************************************)
EXTENDS Integers, Sequences, FiniteSets, TLC

----------------------------------------------------------------------------
(* Exact values standing for f64.                                          *)

S0 == <<0, 0, 0>>

AbsInt(x) == IF x < 0 THEN -x ELSE x

RECURSIVE Gcd(_, _)
Gcd(a, b) == IF b = 0 THEN a ELSE Gcd(b, a % b)

RECURSIVE Pow10(_)
Pow10(k) == IF k <= 0 THEN 1 ELSE 10 * Pow10(k - 1)

Zero == [n |-> 0, d |-> 1, e |-> 0, s |-> S0]

\* Moves the factors 2 and 5 of the denominator into the power of ten.
RECURSIVE FixDen(_, _, _, _)
FixDen(n, d, e, s) ==
    IF d % 2 = 0 THEN FixDen(n * 5, d \div 2, e - 1, s)
    ELSE IF d % 5 = 0 THEN FixDen(n * 2, d \div 5, e - 1, s)
    ELSE [n |-> n, d |-> d, e |-> e, s |-> s]

\* Moves the trailing zeros of the numerator into the power of ten.
RECURSIVE StripNum(_)
StripNum(v) ==
    IF v.n # 0 /\ v.n % 10 = 0
    THEN StripNum([v EXCEPT !.n = v.n \div 10, !.e = v.e + 1])
    ELSE v

\* The normal form of n/d * 10^e * (symbols s), for d > 0.
Norm(n, d, e, s) ==
    IF n = 0 THEN Zero
    ELSE LET g == Gcd(AbsInt(n), d)
         IN  StripNum(FixDen(n \div g, d \div g, e, s))

\* The decimal literal n * 10^e.
Dec(n, e) == Norm(n, 1, e, S0)

One == Dec(1, 0)

\* A symbolic factor: 1 * AU, 1 * LY or 1 * PC.
Sym(i) == [n |-> 1, d |-> 1, e |-> 0, s |-> [j \in 1..3 |-> IF j = i THEN 1 ELSE 0]]

VMul(a, b) ==
    IF a.n = 0 \/ b.n = 0 THEN Zero
    ELSE Norm(a.n * b.n, a.d * b.d, a.e + b.e, [j \in 1..3 |-> a.s[j] + b.s[j]])

\* a / b for b # 0.
VDiv(a, b) ==
    IF a.n = 0 THEN Zero
    ELSE LET sg == IF b.n < 0 THEN -1 ELSE 1
         IN  Norm(sg * a.n * b.d, a.d * AbsInt(b.n), a.e - b.e,
                  [j \in 1..3 |-> a.s[j] - b.s[j]])

VNeg(a) == [a EXCEPT !.n = -a.n]

VAbs(a) == [a EXCEPT !.n = AbsInt(a.n)]

\* a + b, for operands with the same symbolic part (or one of them zero).
VAdd(a, b) ==
    IF a.n = 0 THEN b
    ELSE IF b.n = 0 THEN a
    ELSE LET m  == IF a.e < b.e THEN a.e ELSE b.e
             na == a.n * Pow10(a.e - m) * b.d
             nb == b.n * Pow10(b.e - m) * a.d
         IN  Norm(na + nb, a.d * b.d, m, a.s)

VSub(a, b) == VAdd(a, VNeg(b))

\* Whether a + b is a value of the model: equal symbolic parts and a shift
\* of the decimal point the integers can hold.
Addable(a, b, shift) ==
    \/ a.n = 0
    \/ b.n = 0
    \/ /\ a.s = b.s
       /\ AbsInt(a.e - b.e) <= shift

\* floor(log10(n)) for an integer n >= 1.
RECURSIVE ILog10(_)
ILog10(n) == IF n < 10 THEN 0 ELSE 1 + ILog10(n \div 10)

\* The least j >= 1 with n * 10^j >= d, for 0 < n < d.
RECURSIVE UpTo(_, _)
UpTo(n, d) == IF n * 10 >= d THEN 1 ELSE 1 + UpTo(n * 10, d)

\* floor(log10(v)) for v > 0 without symbolic part.
FloorLog10(v) ==
    IF v.n >= v.d THEN v.e + ILog10(v.n \div v.d)
    ELSE v.e - UpTo(v.n, v.d)

\* a < b for 0 < a, 0 < b with the same symbolic part: by the number of
\* digits before the decimal point, then by the difference.
MagLt(a, b) ==
    LET la == FloorLog10(a)
        lb == FloorLog10(b)
    IN  IF la # lb THEN la < lb ELSE VSub(a, b).n < 0

\* a < b, for operands with the same symbolic part.
VLt(a, b) ==
    IF a.n < 0 /\ b.n < 0 THEN MagLt(VNeg(b), VNeg(a))
    ELSE IF a.n <= 0 \/ b.n <= 0 THEN a.n < b.n
    ELSE MagLt(a, b)

VLe(a, b) == a = b \/ VLt(a, b)

\* a^k of f64::powi, for a # 0 when k < 0.
RECURSIVE VPowI(_, _)
VPowI(a, k) ==
    IF k = 0 THEN One
    ELSE IF k < 0 THEN VDiv(One, VPowI(a, -k))
    ELSE VMul(a, VPowI(a, k - 1))

\* Whether the f64 x is an integer; its value.
IsIntegral(x) == x.d = 1 /\ x.e >= 0 /\ x.s = S0

IntOf(x) == x.n * Pow10(x.e)

\* a^x of f64::powf for an integral x (for a # 0 when x < 0).
VPowF(a, x) == VPowI(a, IntOf(x))

\* floor(x / 3) * 3: f64::div_euclid(3.0) * 3.0 on an integral x.
FloorDiv3Times3(x) == (x \div 3) * 3

----------------------------------------------------------------------------
(* prefix.rs: enum Prefix.                                                 *)

\* The variants in declaration order: the derived Ord compares positions.
PrefixOrder ==
    << "Quecto", "Ronto", "Yocto", "Zepto", "Atto", "Femto", "Pico", "Nano",
       "Micro", "Milli", "Centi", "Deci", "Nothing", "Deca", "Hecto", "Kilo",
       "Mega", "Giga", "Tera", "Peta", "Exa", "Zetta", "Yotta", "Ronna",
       "Quetta" >>

Prefixes == {PrefixOrder[i] : i \in 1..Len(PrefixOrder)}

MAX_EXP == 30

MIN_EXP == -30

\* Prefix::as_f64
PrefixAsF64(p) ==
    CASE p = "Quecto"    -> Dec(1, -30)
      [] p = "Ronto"     -> Dec(1, -27)
      [] p = "Yocto"     -> Dec(1, -24)
      [] p = "Zepto"     -> Dec(1, -21)
      [] p = "Atto"      -> Dec(1, -18)
      [] p = "Femto"     -> Dec(1, -15)
      [] p = "Pico"      -> Dec(1, -12)
      [] p = "Nano"      -> Dec(1, -9)
      [] p = "Micro"     -> Dec(1, -6)
      [] p = "Milli"     -> Dec(1, -3)
      [] p = "Centi"     -> Dec(1, -2)
      [] p = "Deci"      -> Dec(1, -1)
      [] p = "Nothing"   -> Dec(1, 0)
      [] p = "Deca"      -> Dec(1, 1)
      [] p = "Hecto"     -> Dec(1, 2)
      [] p = "Kilo"      -> Dec(1, 3)
      [] p = "Mega"      -> Dec(1, 6)
      [] p = "Giga"      -> Dec(1, 9)
      [] p = "Tera"      -> Dec(1, 12)
      [] p = "Peta"      -> Dec(1, 15)
      [] p = "Exa"       -> Dec(1, 18)
      [] p = "Zetta"     -> Dec(1, 21)
      [] p = "Yotta"     -> Dec(1, 24)
      [] p = "Ronna"     -> Dec(1, 27)
      [] p = "Quetta"    -> Dec(1, 30)

\* Prefix::exp
PrefixExp(p) ==
    CASE p = "Quecto"    -> -30
      [] p = "Ronto"     -> -27
      [] p = "Yocto"     -> -24
      [] p = "Zepto"     -> -21
      [] p = "Atto"      -> -18
      [] p = "Femto"     -> -15
      [] p = "Pico"      -> -12
      [] p = "Nano"      -> -9
      [] p = "Micro"     -> -6
      [] p = "Milli"     -> -3
      [] p = "Centi"     -> -2
      [] p = "Deci"      -> -1
      [] p = "Nothing"   -> 0
      [] p = "Deca"      -> 1
      [] p = "Hecto"     -> 2
      [] p = "Kilo"      -> 3
      [] p = "Mega"      -> 6
      [] p = "Giga"      -> 9
      [] p = "Tera"      -> 12
      [] p = "Peta"      -> 15
      [] p = "Exa"       -> 18
      [] p = "Zetta"     -> 21
      [] p = "Yotta"     -> 24
      [] p = "Ronna"     -> 27
      [] p = "Quetta"    -> 30

\* impl TryFrom<i8> for Prefix, had it known the powers of 1000 only.
PrefixTryFromThousands(item) ==
    IF item \in MIN_EXP..MAX_EXP /\ item % 3 = 0
    THEN [ok |-> TRUE, prefix |-> CHOOSE p \in Prefixes : PrefixExp(p) = item,
          exp |-> item]
    ELSE [ok |-> FALSE, prefix |-> "Nothing", exp |-> item]

\* impl TryFrom<i8> for Prefix: Ok(prefix) or Err(TryFromExp(item)).
PrefixTryFrom(item) ==
    CASE item = -30  -> [ok |-> TRUE,  prefix |-> "Quecto", exp |-> item]
      [] item = -27  -> [ok |-> TRUE,  prefix |-> "Ronto", exp |-> item]
      [] item = -24  -> [ok |-> TRUE,  prefix |-> "Yocto", exp |-> item]
      [] item = -21  -> [ok |-> TRUE,  prefix |-> "Zepto", exp |-> item]
      [] item = -18  -> [ok |-> TRUE,  prefix |-> "Atto", exp |-> item]
      [] item = -15  -> [ok |-> TRUE,  prefix |-> "Femto", exp |-> item]
      [] item = -12  -> [ok |-> TRUE,  prefix |-> "Pico", exp |-> item]
      [] item = -9   -> [ok |-> TRUE,  prefix |-> "Nano", exp |-> item]
      [] item = -6   -> [ok |-> TRUE,  prefix |-> "Micro", exp |-> item]
      [] item = -3   -> [ok |-> TRUE,  prefix |-> "Milli", exp |-> item]
      [] item = -2   -> [ok |-> TRUE,  prefix |-> "Centi", exp |-> item]
      [] item = -1   -> [ok |-> TRUE,  prefix |-> "Deci", exp |-> item]
      [] item = 0    -> [ok |-> TRUE,  prefix |-> "Nothing", exp |-> item]
      [] item = 1    -> [ok |-> TRUE,  prefix |-> "Deca", exp |-> item]
      [] item = 2    -> [ok |-> TRUE,  prefix |-> "Hecto", exp |-> item]
      [] item = 3    -> [ok |-> TRUE,  prefix |-> "Kilo", exp |-> item]
      [] item = 6    -> [ok |-> TRUE,  prefix |-> "Mega", exp |-> item]
      [] item = 9    -> [ok |-> TRUE,  prefix |-> "Giga", exp |-> item]
      [] item = 12   -> [ok |-> TRUE,  prefix |-> "Tera", exp |-> item]
      [] item = 15   -> [ok |-> TRUE,  prefix |-> "Peta", exp |-> item]
      [] item = 18   -> [ok |-> TRUE,  prefix |-> "Exa", exp |-> item]
      [] item = 21   -> [ok |-> TRUE,  prefix |-> "Zetta", exp |-> item]
      [] item = 24   -> [ok |-> TRUE,  prefix |-> "Yotta", exp |-> item]
      [] item = 27   -> [ok |-> TRUE,  prefix |-> "Ronna", exp |-> item]
      [] item = 30   -> [ok |-> TRUE,  prefix |-> "Quetta", exp |-> item]
      [] OTHER       -> [ok |-> FALSE, prefix |-> "Nothing", exp |-> item]

\* Position of a prefix in the enum.
PrefixIndex(p) == CHOOSE i \in 1..Len(PrefixOrder) : PrefixOrder[i] = p

\* The derived `<` of Prefix, had the variants been declared in descending
\* order.
PrefixLtReversed(p, q) == PrefixIndex(q) < PrefixIndex(p)

\* The derived `<` of Prefix.
PrefixLt(p, q) == PrefixIndex(p) < PrefixIndex(q)

\* Ord::max on Prefix, had it been the first operand.
PrefixMaxFirst(p, q) == p

\* Ord::max on Prefix.
PrefixMax(p, q) == IF PrefixLt(q, p) THEN p ELSE q

\* impl fmt::Display for Prefix
PrefixDisplay(p) ==
    CASE p = "Quecto"   -> "quecto"
      [] p = "Ronto"    -> "ronto"
      [] p = "Yocto"    -> "yocto"
      [] p = "Zepto"    -> "zepto"
      [] p = "Atto"     -> "atto"
      [] p = "Femto"    -> "femto"
      [] p = "Pico"     -> "pico"
      [] p = "Nano"     -> "nano"
      [] p = "Micro"    -> "micro"
      [] p = "Milli"    -> "milli"
      [] p = "Centi"    -> "centi"
      [] p = "Deci"     -> "deci"
      [] p = "Nothing"  -> ""
      [] p = "Deca"     -> "deca"
      [] p = "Hecto"    -> "hecto"
      [] p = "Kilo"     -> "kilo"
      [] p = "Mega"     -> "mega"
      [] p = "Giga"     -> "giga"
      [] p = "Tera"     -> "tera"
      [] p = "Peta"     -> "peta"
      [] p = "Exa"      -> "exa"
      [] p = "Zetta"    -> "zetta"
      [] p = "Yotta"    -> "yotta"
      [] p = "Ronna"    -> "ronna"
      [] p = "Quetta"   -> "quetta"

\* impl LatexSym for Prefix::to_latex_sym (the options are not read).
PrefixToLatexSym(p) ==
    CASE p = "Quecto"   -> "\\quecto"
      [] p = "Ronto"    -> "\\ronto"
      [] p = "Yocto"    -> "\\yocto"
      [] p = "Zepto"    -> "\\zepto"
      [] p = "Atto"     -> "\\atto"
      [] p = "Femto"    -> "\\femto"
      [] p = "Pico"     -> "\\pico"
      [] p = "Nano"     -> "\\nano"
      [] p = "Micro"    -> "\\micro"
      [] p = "Milli"    -> "\\milli"
      [] p = "Centi"    -> "\\centi"
      [] p = "Deci"     -> "\\deca"
      [] p = "Nothing"  -> ""
      [] p = "Deca"     -> "\\deca"
      [] p = "Hecto"    -> "\\hecto"
      [] p = "Kilo"     -> "\\kilo"
      [] p = "Mega"     -> "\\mega"
      [] p = "Giga"     -> "\\giga"
      [] p = "Tera"     -> "\\tera"
      [] p = "Peta"     -> "\\peta"
      [] p = "Exa"      -> "\\exa"
      [] p = "Zetta"    -> "\\zetta"
      [] p = "Yotta"    -> "\\yotta"
      [] p = "Ronna"    -> "\\ronna"
      [] p = "Quetta"   -> "\\quetta"

----------------------------------------------------------------------------
(* unit.rs: enum Unit, enum PhysicalQuantity.                              *)

\* A named unit, and Unit::Custom( label ).
U(tag) == [tag |-> tag, label |-> ""]

Custom(label) == [tag |-> "Custom", label |-> label]

\* The labels of the custom units the model draws from.
CustomLabels == {"a", "b"}

NamedUnits ==
    { U(t) : t \in { "Ampere", "Candela", "Kelvin", "Kilogram", "Meter", "Mole",
                     "Second", "Gram", "Tonne", "AstronomicalUnit", "Lightyear",
                     "Parsec", "Pascal", "Bar", "Sievert" } }

Units == NamedUnits \cup { Custom(l) : l \in CustomLabels }

\* Unit::phys
UnitPhys(u) ==
    CASE u.tag = "Custom"   -> "Custom"
      [] u.tag = "Ampere"   -> "Current"
      [] u.tag = "Candela"  -> "LuminousIntensity"
      [] u.tag = "Kelvin"   -> "Temperature"
      [] u.tag \in {"Kilogram", "Gram", "Tonne"} -> "Mass"
      [] u.tag \in {"Meter", "AstronomicalUnit", "Lightyear", "Parsec"} -> "Length"
      [] u.tag = "Mole"     -> "Amount"
      [] u.tag = "Second"   -> "Time"
      [] u.tag \in {"Pascal", "Bar"} -> "Pressure"
      [] u.tag = "Sievert"  -> "Radiation"

\* Unit::factor
UnitFactor(u) ==
    CASE u.tag = "Custom"   -> Dec(1, 0)
      [] u.tag \in {"Ampere", "Candela", "Kelvin", "Kilogram", "Meter", "Mole",
                    "Second", "Pascal", "Sievert"} -> Dec(1, 0)
      [] u.tag = "Gram"     -> Dec(1, -3)
      [] u.tag = "Tonne"    -> Dec(1, 3)
      [] u.tag = "AstronomicalUnit" -> Sym(1)
      [] u.tag = "Lightyear" -> Sym(2)
      [] u.tag = "Parsec"   -> Sym(3)
      [] u.tag = "Bar"      -> Dec(1, 5)

\* Unit::base
UnitBase(u) ==
    CASE u.tag = "Custom"   -> Custom(u.label)
      [] u.tag = "Ampere"   -> U("Ampere")
      [] u.tag = "Candela"  -> U("Candela")
      [] u.tag = "Kelvin"   -> U("Kelvin")
      [] u.tag = "Kilogram" -> U("Kilogram")
      [] u.tag = "Meter"    -> U("Meter")
      [] u.tag = "Mole"     -> U("Mole")
      [] u.tag = "Second"   -> U("Second")
      [] u.tag \in {"Gram", "Tonne"} -> U("Kilogram")
      [] u.tag \in {"AstronomicalUnit", "Lightyear", "Parsec"} -> U("Meter")
      [] u.tag = "Pascal"   -> U("Pascal")
      [] u.tag = "Bar"      -> U("Pascal")
      [] u.tag = "Sievert"  -> U("Sievert")

----------------------------------------------------------------------------
(* number.rs: struct Num { mantissa, prefix }.                             *)

\* Num::new, From<f64> for Num
NumNew(num) == [mantissa |-> num, prefix |-> "Nothing"]

\* Num::with_prefix
NumWithPrefix(self, prefix) == [mantissa |-> self.mantissa, prefix |-> prefix]

\* Num::to_prefix, had it divided the factors the other way round.
NumToPrefixInverted(self, prefix) ==
    LET factor == VDiv(PrefixAsF64(prefix), PrefixAsF64(self.prefix))
    IN  [mantissa |-> VMul(self.mantissa, factor), prefix |-> prefix]

\* Num::to_prefix, had it left the mantissa as it was.
NumToPrefixRelabel(self, prefix) == [mantissa |-> self.mantissa, prefix |-> prefix]

\* Num::to_prefix
NumToPrefix(self, prefix) ==
    LET factor == VDiv(PrefixAsF64(self.prefix), PrefixAsF64(prefix))
    IN  [mantissa |-> VMul(self.mantissa, factor), prefix |-> prefix]

\* Num::as_f64
NumAsF64(self) == VMul(self.mantissa, PrefixAsF64(self.prefix))

\* The three outcomes of an operation on a Num.
NumOk(num) == [kind |-> "Ok", num |-> num, err |-> "", exp |-> 0]

NumErr(err, exp) == [kind |-> "Err", num |-> NumNew(Zero), err |-> err, exp |-> exp]

NumPanic(why) == [kind |-> "Panic", num |-> NumNew(Zero), err |-> why, exp |-> 0]

\* `x as i8` for an integral f64 x: the cast saturates.
SaturateI8(x) == IF x < -128 THEN -128 ELSE IF x > 127 THEN 127 ELSE x

\* Two's complement wrap of an integer to i8.
WrapI8(x) == ((x + 128) % 256) - 128

\* Num::shortened.  f64::log10 of a negative mantissa is NaN, NaN > MAX_EXP
\* is false and `NaN as i8` is 0.  The i8 addition overflows to a panic in a
\* build with overflow checks ("debug") and wraps without them ("release").
NumShortenedNonZero(self, build) ==
    LET nan  == self.mantissa.n < 0
        exps == IF nan THEN 0
                ELSE FloorDiv3Times3(FloorLog10(self.mantissa))
    IN  IF ~nan /\ exps > MAX_EXP THEN NumErr("ExpInvalid", exps)
        ELSE LET sum == PrefixExp(self.prefix) + SaturateI8(exps)
             IN  IF (sum < -128 \/ sum > 127) /\ build = "debug"
                 THEN NumPanic("attempt to add with overflow")
                 ELSE LET exp_new    == WrapI8(sum)
                          prefix_new == PrefixTryFrom(exp_new)
                      IN  IF ~prefix_new.ok
                          THEN NumErr("TryFromExp", exp_new)
                          ELSE NumOk(NumToPrefix(self, prefix_new.prefix))

\* Num::shortened, had it returned a zero as it is.
NumShortenedZeroKept(self, build) ==
    IF self.mantissa.n = 0 THEN NumOk(self)
    ELSE NumShortenedNonZero(self, build)

NumShortened(self, build) ==
    IF self.mantissa.n = 0 THEN NumOk(NumNew(Zero))
    ELSE NumShortenedNonZero(self, build)

\* Num::abs
NumAbs(self) == NumToPrefix(NumNew(VAbs(NumAsF64(self))), self.prefix)

\* impl Mul<f64> for Num, had it returned the product without its prefix.
NumMulF64NoPrefix(self, other) == NumNew(VMul(NumAsF64(self), other))

\* impl Mul<f64> for Num
NumMulF64(self, other) ==
    LET val == VMul(NumAsF64(self), other)
    IN  NumToPrefix(NumNew(val), self.prefix)

\* impl MulAssign<f64> for Num, had it put the scaled value where the
\* mantissa is.
NumMulAssignValue(self, rhs) == [self EXCEPT !.mantissa = VMul(NumAsF64(self), rhs)]

\* impl MulAssign<f64> for Num
NumMulAssign(self, rhs) == [self EXCEPT !.mantissa = VMul(self.mantissa, rhs)]

\* impl Neg for Num, had it returned the value without the prefix.
NumNegNoPrefix(self) == NumNew(VNeg(NumAsF64(self)))

\* impl Neg for Num
NumNeg(self) == NumToPrefix(NumNew(VNeg(NumAsF64(self))), self.prefix)

\* impl PartialEq for Num, had it compared the ( mantissa, prefix ) pairs.
NumEqRaw(self, other) == self = other

\* impl PartialEq for Num
NumEq(self, other) == NumAsF64(self) = NumAsF64(other)

\* Num::powi, Num::powf
NumPowi(self, n) == NumToPrefix(NumNew(VPowI(NumAsF64(self), n)), self.prefix)

NumPowf(self, n) == NumToPrefix(NumNew(VPowF(NumAsF64(self), n)), self.prefix)

\* impl PartialOrd for Num: partial_cmp, lt, le, ge, gt
NumPartialCmp(self, other) ==
    IF NumAsF64(self) = NumAsF64(other) THEN "Equal"
    ELSE IF VLt(NumAsF64(self), NumAsF64(other)) THEN "Less"
    ELSE "Greater"

NumLt(self, other) == VLt(NumAsF64(self), NumAsF64(other))

NumLe(self, other) == VLe(NumAsF64(self), NumAsF64(other))

NumGe(self, other) == VLe(NumAsF64(other), NumAsF64(self))

NumGt(self, other) == VLt(NumAsF64(other), NumAsF64(self))

\* impl Add for Num, impl Add<f64> for Num
NumAdd(self, other) ==
    LET val  == VAdd(NumAsF64(self), NumAsF64(other))
        pref == PrefixMax(self.prefix, other.prefix)
    IN  NumToPrefix(NumNew(val), pref)

NumAddF64(self, other) ==
    LET val == VAdd(NumAsF64(self), other)
    IN  NumToPrefix(NumNew(val), self.prefix)

\* impl Sub for Num, impl Sub<f64> for Num
NumSub(self, other) ==
    LET val  == VSub(NumAsF64(self), NumAsF64(other))
        pref == PrefixMax(self.prefix, other.prefix)
    IN  NumToPrefix(NumNew(val), pref)

NumSubF64(self, other) ==
    LET val == VSub(NumAsF64(self), other)
    IN  NumToPrefix(NumNew(val), self.prefix)

\* impl Mul for Num
NumMul(self, other) ==
    LET val  == VMul(NumAsF64(self), NumAsF64(other))
        pref == PrefixMax(self.prefix, other.prefix)
    IN  NumToPrefix(NumNew(val), pref)

\* impl Div for Num, impl Div<f64> for Num (for a divisor that is not zero)
NumDiv(self, other) ==
    LET val  == VDiv(NumAsF64(self), NumAsF64(other))
        pref == PrefixMax(self.prefix, other.prefix)
    IN  NumToPrefix(NumNew(val), pref)

NumDivF64(self, other) ==
    LET val == VDiv(NumAsF64(self), other)
    IN  NumToPrefix(NumNew(val), self.prefix)

----------------------------------------------------------------------------
(* quantity.rs: struct Qty { number, unit }.                               *)

\* Stands where an operation produced no Qty.
NoQty == [number |-> NumNew(Zero), unit |-> U("")]

\* The outcomes of an operation on a Qty: a Qty, an error value
\* (UnitError::UnitMismatch( units ) or a PrefixError), a panic, or the bool
\* of a comparison.
QOk(qty) ==
    [kind |-> "Ok", qty |-> qty, err |-> "", units |-> <<>>, exp |-> 0, flag |-> FALSE]

QErrUnits(units) ==
    [kind |-> "Err", qty |-> NoQty, err |-> "UnitMismatch", units |-> units, exp |-> 0,
     flag |-> FALSE]

QErrPrefix(err, exp) ==
    [kind |-> "Err", qty |-> NoQty, err |-> err, units |-> <<>>, exp |-> exp,
     flag |-> FALSE]

QPanic(why) ==
    [kind |-> "Panic", qty |-> NoQty, err |-> why, units |-> <<>>, exp |-> 0,
     flag |-> FALSE]

QBool(b) ==
    [kind |-> "Bool", qty |-> NoQty, err |-> "", units |-> <<>>, exp |-> 0, flag |-> b]

\* The outcome of an ordering comparison: the Ordering of partial_cmp
\* (always Some: a NaN is no value of the model), or the bool of <, <=, >=, >.
QOrd(ord, b) ==
    [kind |-> "Ord", qty |-> NoQty, err |-> "", units |-> <<>>, exp |-> 0, flag |-> b,
     ord |-> ord]

\* Result::unwrap
Unwrap(r) == IF r.kind = "Err" THEN QPanic("called unwrap on an Err value") ELSE r

\* A method call on the Qty a previous call returned; a panic ends the chain.
Then(r, F(_)) == IF r.kind = "Ok" THEN F(r.qty) ELSE r

\* Qty::new, had it renamed a prefixed Kilogram to Gram and a kilo-Gram to
\* Kilogram without moving the prefix.
QtyNewRenames(number, unit) ==
    IF unit.tag = "Kilogram" /\ number.prefix # "Nothing"
    THEN QOk([number |-> number, unit |-> U("Gram")])
    ELSE IF unit.tag = "Gram" /\ number.prefix = "Kilo"
    THEN QOk([number |-> number, unit |-> U("Kilogram")])
    ELSE QOk([number |-> number, unit |-> unit])

\* Qty::new
QtyNew(number, unit) ==
    IF unit.tag = "Kilogram" /\ number.prefix # "Nothing"
    THEN LET exp_new    == PrefixExp(number.prefix) + 3
             prefix_new == PrefixTryFrom(exp_new)
         IN  IF ~prefix_new.ok
             THEN QPanic("called unwrap on an Err value")
             ELSE QOk([number |-> NumWithPrefix(number, prefix_new.prefix),
                       unit   |-> U("Gram")])
    ELSE IF unit.tag = "Gram" /\ number.prefix = "Kilo"
    THEN QOk([number |-> NumWithPrefix(number, "Nothing"), unit |-> U("Kilogram")])
    ELSE QOk([number |-> number, unit |-> unit])

\* Qty::shortened
QtyShortened(self, build) ==
    LET num == NumShortened(self.number, build)
    IN  CASE num.kind = "Panic" -> QPanic(num.err)
          [] num.kind = "Err"   -> QErrPrefix(num.err, num.exp)
          [] num.kind = "Ok"    -> QtyNew(num.num, self.unit)

\* Qty::as_f64
QtyAsF64(self) == VMul(NumAsF64(self.number), UnitFactor(self.unit))

\* Qty::phys
QtyPhys(self) == UnitPhys(self.unit)

\* Qty::to_prefix, had it built the Qty without Qty::new.
QtyToPrefixNoNew(self, prefix) ==
    QOk([number |-> NumToPrefix(self.number, prefix), unit |-> self.unit])

\* Qty::to_prefix
QtyToPrefix(self, prefix) == QtyNew(NumToPrefix(self.number, prefix), self.unit)

\* Qty::to_unit, had it not compared the physical quantities.
QtyToUnitUnchecked(self, unit) ==
    LET factor  == VDiv(UnitFactor(self.unit), UnitFactor(unit))
        num_new == NumMulF64(self.number, factor)
    IN  QtyNew(num_new, unit)

\* Qty::to_unit, had it divided the factors the other way round.
QtyToUnitInverted(self, unit) ==
    IF QtyPhys(self) # UnitPhys(unit)
    THEN QErrUnits(<<self.unit, unit>>)
    ELSE LET factor  == VDiv(UnitFactor(unit), UnitFactor(self.unit))
             num_new == NumMulF64(self.number, factor)
         IN  QtyNew(num_new, unit)

\* Qty::to_unit
QtyToUnit(self, unit) ==
    IF QtyPhys(self) # UnitPhys(unit)
    THEN QErrUnits(<<self.unit, unit>>)
    ELSE LET factor_old == UnitFactor(self.unit)
             factor_new == UnitFactor(unit)
             factor     == VDiv(factor_old, factor_new)
             num_new    == NumMulF64(self.number, factor)
         IN  QtyNew(num_new, unit)

\* Qty::abs
QtyAbs(self) ==
    LET val == VAbs(QtyAsF64(self))
    IN  QtyNew(NumToPrefix(NumNew(val), self.number.prefix), self.unit)

\* impl PartialEq for Qty, had it compared the values only.
QtyEqValueOnly(self, other) == QtyAsF64(self) = QtyAsF64(other)

\* impl PartialEq for Qty
QtyEq(self, other) ==
    IF QtyPhys(self) # QtyPhys(other) THEN FALSE
    ELSE QtyAsF64(self) = QtyAsF64(other)

\* impl PartialOrd for Qty: partial_cmp, lt, le, ge, gt
QtyPartialCmp(self, other) ==
    IF QtyAsF64(self) = QtyAsF64(other) THEN "Equal"
    ELSE IF VLt(QtyAsF64(self), QtyAsF64(other)) THEN "Less"
    ELSE "Greater"

QtyLt(self, other) == VLt(QtyAsF64(self), QtyAsF64(other))

QtyLe(self, other) == VLe(QtyAsF64(self), QtyAsF64(other))

QtyGe(self, other) == VLe(QtyAsF64(other), QtyAsF64(self))

QtyGt(self, other) == VLt(QtyAsF64(other), QtyAsF64(self))

\* The tail of the arithmetic operators, had it left out .to_prefix( .. ).
FromBaseNoToPrefix(self, val) ==
    Unwrap(Then(QtyNew(NumNew(val), UnitBase(self.unit)),
                LAMBDA q : QtyToUnit(q, self.unit)))

\* The tail of the arithmetic operators, had it taken the value in base
\* units for a value in self.unit.
FromBaseNoToUnit(self, val) ==
    Then(QtyNew(NumNew(val), self.unit),
         LAMBDA q : QtyToPrefix(q, self.number.prefix))

\* The tail shared by the arithmetic operators:
\*   Self::new( val.into(), &self.unit.base() )
\*       .to_unit( &self.unit ).unwrap()
\*       .to_prefix( self.number.prefix() )
FromBase(self, val) ==
    LET inBase == QtyNew(NumNew(val), UnitBase(self.unit))
        inUnit == Unwrap(Then(inBase, LAMBDA q : QtyToUnit(q, self.unit)))
    IN  Then(inUnit, LAMBDA q : QtyToPrefix(q, self.number.prefix))

\* impl Add for Qty, impl Add<f64> for Qty
QtyAdd(self, other) == FromBase(self, VAdd(QtyAsF64(self), QtyAsF64(other)))

QtyAddF64(self, other) == FromBase(self, VAdd(QtyAsF64(self), other))

\* impl Sub for Qty, impl Sub<f64> for Qty
QtySub(self, other) == FromBase(self, VSub(QtyAsF64(self), QtyAsF64(other)))

QtySubF64(self, other) == FromBase(self, VSub(QtyAsF64(self), other))

\* impl Mul for Qty, impl Mul<f64> for Qty
QtyMul(self, other) == FromBase(self, VMul(QtyAsF64(self), QtyAsF64(other)))

QtyMulF64(self, other) == FromBase(self, VMul(QtyAsF64(self), other))

\* impl MulAssign<f64> for Qty
QtyMulAssign(self, rhs) == QOk([self EXCEPT !.number = NumMulAssign(self.number, rhs)])

\* impl Div for Qty, impl Div<f64> for Qty (for a divisor that is not zero)
QtyDiv(self, other) == FromBase(self, VDiv(QtyAsF64(self), QtyAsF64(other)))

QtyDivF64(self, other) == FromBase(self, VDiv(QtyAsF64(self), other))

\* impl Neg for Qty
QtyNeg(self) ==
    LET val == VNeg(QtyAsF64(self))
        num == NumToPrefix(NumNew(val), self.number.prefix)
    IN  Unwrap(Then(QtyNew(num, UnitBase(self.unit)),
                    LAMBDA q : QtyToUnit(q, self.unit)))

----------------------------------------------------------------------------
(* The state machine: a caller constructs a Qty with Qty::new and applies  *)
(* the public operations of quantity.rs to the Qty it holds.               *)
(*                                                                         *)
(*   scope  which inputs the run draws from: "wide" applies operations to  *)
(*          freshly constructed quantities over all prefixes and units,    *)
(*          "deep" chains operations over fewer prefixes and units;        *)
(*   op     the last operation;                                            *)
(*   recv   the Qty it was applied to (for "new": the number and unit      *)
(*          passed to Qty::new, not yet normalised);                       *)
(*   arg    its arguments;                                                 *)
(*   res    its outcome;                                                   *)
(*   steps  the number of operations applied since Qty::new.               *)

VARIABLES scope, op, recv, arg, res, steps

vars == <<scope, op, recv, arg, res, steps>>

\* Operations chained after Qty::new in the deep scope (the wide scope
\* applies one operation to the Qty that Qty::new returned).
DeepOps == 3

\* Operands of + and - differ by at most this many decimal places.
MaxShift == 6

\* Operands of the arithmetic operators have at most this numerator and
\* denominator in normal form.
MaxNum == 50

MaxDen == 3

Scopes == {"wide", "deep"}

\* The mantissas Qty::new is called with.
Mantissas(sc) ==
    IF sc = "wide"
    THEN {Zero, Dec(1, 0), Dec(-2, 0), Dec(15, 2), Dec(1, 30)}
    ELSE {Dec(2, 3)}

\* The prefixes Qty::new and to_prefix are called with.
PrefixesOf(sc) ==
    IF sc = "wide" THEN Prefixes
    ELSE {"Milli", "Nothing", "Hecto", "Kilo"}

\* The units Qty::new and to_unit are called with.
UnitsOf(sc) ==
    IF sc = "wide" THEN Units
    ELSE {U("Kilogram"), U("Gram"), U("Second")}

\* The f64 operands.
Scalars(sc) == IF sc = "wide" THEN {Dec(4, 0), Dec(-5, -1)} ELSE {Dec(3, 0)}

\* The Qty operands: 4 of every unit, and 2 mg, 2 ms, 1 t, 1 s (wide only).
Others(sc) ==
    { QtyNew(NumNew(Dec(4, 0)), u).qty : u \in UnitsOf(sc) }
    \cup (IF sc = "wide"
          THEN { QtyNew(NumWithPrefix(NumNew(Dec(2, 0)), "Milli"), u).qty :
                   u \in {U("Gram"), U("Second")} }
               \cup { QtyNew(NumNew(Dec(1, 0)), u).qty :
                        u \in {U("Tonne"), U("Second")} }
          ELSE {})

\* The two builds: with and without integer overflow checks.
Builds == {"debug", "release"}

NoArg ==
    [prefix |-> "Nothing", unit |-> U(""), scalar |-> Zero, other |-> NoQty, build |-> ""]

NoRes ==
    [kind |-> "None", qty |-> NoQty, err |-> "", units |-> <<>>, exp |-> 0, flag |-> FALSE]

Small(v) == AbsInt(v.n) <= MaxNum /\ v.d <= MaxDen

\* The Qty the caller holds: the result of the last operation, or its
\* receiver when the operation returned an error or a bool.
Live == IF res.kind = "Ok" THEN res.qty ELSE recv

\* Whether the caller holds a Qty and may apply a further operation.
CanStep ==
    /\ op # "init"
    /\ res.kind \in {"Ok", "Err", "Bool"}
    /\ IF scope = "wide" THEN op = "new" ELSE steps < DeepOps

Step(o, a, r) ==
    /\ op' = o
    /\ recv' = Live
    /\ arg' = a
    /\ res' = r
    /\ steps' = steps + 1
    /\ UNCHANGED scope

Init ==
    /\ scope \in Scopes
    /\ op = "init"
    /\ recv = NoQty
    /\ arg = NoArg
    /\ res = NoRes
    /\ steps = 0

New ==
    /\ op = "init"
    /\ \E m \in Mantissas(scope), p \in PrefixesOf(scope), u \in UnitsOf(scope) :
         LET number == NumWithPrefix(NumNew(m), p)
         IN  /\ op' = "new"
             /\ recv' = [number |-> number, unit |-> u]
             /\ arg' = NoArg
             /\ res' = QtyNew(number, u)
             /\ steps' = 0
             /\ UNCHANGED scope

Shortened ==
    /\ CanStep
    /\ Live.number.mantissa.s = S0
    /\ \E b \in Builds :
         Step("shortened", [NoArg EXCEPT !.build = b], QtyShortened(Live, b))

ToPrefix ==
    /\ CanStep
    /\ \E p \in PrefixesOf(scope) :
         Step("to_prefix", [NoArg EXCEPT !.prefix = p], QtyToPrefix(Live, p))

ToUnit ==
    /\ CanStep
    /\ \E u \in UnitsOf(scope) :
         Step("to_unit", [NoArg EXCEPT !.unit = u], QtyToUnit(Live, u))

Abs == CanStep /\ Step("abs", NoArg, QtyAbs(Live))

Neg == CanStep /\ Step("neg", NoArg, QtyNeg(Live))

Add ==
    /\ CanStep
    /\ \E o \in Others(scope) :
         /\ Small(QtyAsF64(Live)) /\ Small(QtyAsF64(o))
         /\ Addable(QtyAsF64(Live), QtyAsF64(o), MaxShift)
         /\ Step("add", [NoArg EXCEPT !.other = o], QtyAdd(Live, o))

AddF64 ==
    /\ CanStep
    /\ \E x \in Scalars(scope) :
         /\ Small(QtyAsF64(Live))
         /\ Addable(QtyAsF64(Live), x, MaxShift)
         /\ Step("add_f64", [NoArg EXCEPT !.scalar = x], QtyAddF64(Live, x))

Sub ==
    /\ CanStep
    /\ \E o \in Others(scope) :
         /\ Small(QtyAsF64(Live)) /\ Small(QtyAsF64(o))
         /\ Addable(QtyAsF64(Live), QtyAsF64(o), MaxShift)
         /\ Step("sub", [NoArg EXCEPT !.other = o], QtySub(Live, o))

SubF64 ==
    /\ CanStep
    /\ \E x \in Scalars(scope) :
         /\ Small(QtyAsF64(Live))
         /\ Addable(QtyAsF64(Live), x, MaxShift)
         /\ Step("sub_f64", [NoArg EXCEPT !.scalar = x], QtySubF64(Live, x))

Mul ==
    /\ CanStep
    /\ \E o \in Others(scope) :
         /\ Small(QtyAsF64(Live)) /\ Small(QtyAsF64(o))
         /\ Step("mul", [NoArg EXCEPT !.other = o], QtyMul(Live, o))

MulF64 ==
    /\ CanStep
    /\ \E x \in Scalars(scope) :
         /\ Small(QtyAsF64(Live))
         /\ Step("mul_f64", [NoArg EXCEPT !.scalar = x], QtyMulF64(Live, x))

MulAssign ==
    /\ CanStep
    /\ \E x \in Scalars(scope) :
         /\ Small(Live.number.mantissa)
         /\ Step("mul_assign", [NoArg EXCEPT !.scalar = x], QtyMulAssign(Live, x))

Div ==
    /\ CanStep
    /\ \E o \in Others(scope) :
         /\ Small(QtyAsF64(Live)) /\ Small(QtyAsF64(o))
         /\ QtyAsF64(o) # Zero
         /\ Step("div", [NoArg EXCEPT !.other = o], QtyDiv(Live, o))

DivF64 ==
    /\ CanStep
    /\ \E x \in Scalars(scope) :
         /\ Small(QtyAsF64(Live))
         /\ x # Zero
         /\ Step("div_f64", [NoArg EXCEPT !.scalar = x], QtyDivF64(Live, x))

Eq ==
    /\ CanStep
    /\ \E o \in Others(scope) :
         Step("eq", [NoArg EXCEPT !.other = o], QBool(QtyEq(Live, o)))

\* The values the ordering comparisons compare are plain numbers (no
\* astronomical factor).
Plain(q) == QtyAsF64(q).s = S0

\* The ordering comparisons read as_f64() of both quantities and nothing
\* else: they are applied to the quantities of the wide scope.
CanCompare == CanStep /\ scope = "wide"

PartialCmp ==
    /\ CanCompare
    /\ \E o \in Others(scope) :
         /\ Plain(Live) /\ Plain(o)
         /\ Step("partial_cmp", [NoArg EXCEPT !.other = o],
                 QOrd(QtyPartialCmp(Live, o), FALSE))

Lt ==
    /\ CanCompare
    /\ \E o \in Others(scope) :
         /\ Plain(Live) /\ Plain(o)
         /\ Step("lt", [NoArg EXCEPT !.other = o], QOrd("", QtyLt(Live, o)))

Le ==
    /\ CanCompare
    /\ \E o \in Others(scope) :
         /\ Plain(Live) /\ Plain(o)
         /\ Step("le", [NoArg EXCEPT !.other = o], QOrd("", QtyLe(Live, o)))

Ge ==
    /\ CanCompare
    /\ \E o \in Others(scope) :
         /\ Plain(Live) /\ Plain(o)
         /\ Step("ge", [NoArg EXCEPT !.other = o], QOrd("", QtyGe(Live, o)))

Gt ==
    /\ CanCompare
    /\ \E o \in Others(scope) :
         /\ Plain(Live) /\ Plain(o)
         /\ Step("gt", [NoArg EXCEPT !.other = o], QOrd("", QtyGt(Live, o)))

Next ==
    \/ New
    \/ Shortened
    \/ ToPrefix
    \/ ToUnit
    \/ Abs
    \/ Neg
    \/ Add
    \/ AddF64
    \/ Sub
    \/ SubF64
    \/ Mul
    \/ MulF64
    \/ MulAssign
    \/ Div
    \/ DivF64
    \/ Eq
    \/ PartialCmp
    \/ Lt
    \/ Le
    \/ Ge
    \/ Gt

Spec == Init /\ [][Next]_vars

----------------------------------------------------------------------------
(* The state machine of number.rs: a caller constructs a Num with          *)
(* Num::new( .. ).with_prefix( .. ) and applies the public operations of   *)
(* number.rs to the Num it holds.  The variables are those above, with a   *)
(* Num in recv and the outcome of the operation on the Num in res.         *)

\* Operations chained after the construction in the deep scope.
NumDeepOps == 2

\* The mantissas Num::new is called with.
NumMantissas(sc) ==
    IF sc = "wide"
    THEN {Zero, Dec(1, 0), Dec(2, 0), Dec(-2, 0), Dec(15, 2), Dec(1234, 0),
          Dec(-1234, 0), Dec(1, -3), Dec(2, 6), Dec(1, 40), Dec(1, -200)}
    ELSE {Dec(15, 2), Dec(-2, 0)}

\* The prefixes with_prefix and to_prefix are called with.
NumPrefixesOf(sc) ==
    IF sc = "wide" THEN Prefixes
    ELSE {"Milli", "Centi", "Nothing", "Kilo"}

\* The Num operands: 4, 2 k, and (wide only) 2e6 m, 1 micro.
NumOthers(sc) ==
    {NumNew(Dec(4, 0)), NumWithPrefix(NumNew(Dec(2, 0)), "Kilo")}
    \cup (IF sc = "wide"
          THEN {NumWithPrefix(NumNew(Dec(2, 6)), "Milli"),
                NumWithPrefix(NumNew(Dec(1, 0)), "Micro")}
          ELSE {})

\* The exponents of powi and powf.
PowIs(sc) == IF sc = "wide" THEN {-1, 0, 2, 3} ELSE {2}

PowFs(sc) == IF sc = "wide" THEN {Dec(2, 0), Dec(-1, 0)} ELSE {Dec(2, 0)}

NumNoArg ==
    [prefix |-> "Nothing", scalar |-> Zero, other |-> NumNew(Zero), build |-> "",
     n |-> 0]

\* The outcome of an operation on a Num: a Num, an error value, a panic, a
\* bool or an Ordering.
NumRes(kind, num, err, exp, flag, ord) ==
    [kind |-> kind, num |-> num, err |-> err, exp |-> exp, flag |-> flag, ord |-> ord]

NumNoRes == NumRes("None", NumNew(Zero), "", 0, FALSE, "")

NumIs(num) == NumRes("Ok", num, "", 0, FALSE, "")

NumOf(r) == NumRes(r.kind, r.num, r.err, r.exp, FALSE, "")

NumBool(b) == NumRes("Bool", NumNew(Zero), "", 0, b, "")

NumOrd(o) == NumRes("Ord", NumNew(Zero), "", 0, FALSE, o)

\* The Num the caller holds.
NumLive == IF res.kind = "Ok" THEN res.num ELSE recv

NumCanStep ==
    /\ op # "init"
    /\ res.kind \in {"Ok", "Err", "Bool", "Ord"}
    /\ IF scope = "wide" THEN op = "new" ELSE steps < NumDeepOps

NumStep(o, a, r) ==
    /\ op' = o
    /\ recv' = NumLive
    /\ arg' = a
    /\ res' = r
    /\ steps' = steps + 1
    /\ UNCHANGED scope

NumInit ==
    /\ scope \in Scopes
    /\ op = "init"
    /\ recv = NumNew(Zero)
    /\ arg = NumNoArg
    /\ res = NumNoRes
    /\ steps = 0

NNew ==
    /\ op = "init"
    /\ \E m \in NumMantissas(scope), p \in NumPrefixesOf(scope) :
         /\ op' = "new"
         /\ recv' = NumNew(m)
         /\ arg' = [NumNoArg EXCEPT !.prefix = p]
         /\ res' = NumIs(NumWithPrefix(NumNew(m), p))
         /\ steps' = 0
         /\ UNCHANGED scope

NToPrefix ==
    /\ NumCanStep
    /\ \E p \in NumPrefixesOf(scope) :
         NumStep("to_prefix", [NumNoArg EXCEPT !.prefix = p],
                 NumIs(NumToPrefix(NumLive, p)))

NShortened ==
    /\ NumCanStep
    /\ \E b \in Builds :
         NumStep("shortened", [NumNoArg EXCEPT !.build = b],
                 NumOf(NumShortened(NumLive, b)))

NAbs == NumCanStep /\ NumStep("abs", NumNoArg, NumIs(NumAbs(NumLive)))

NNeg == NumCanStep /\ NumStep("neg", NumNoArg, NumIs(NumNeg(NumLive)))

NPowi ==
    /\ NumCanStep
    /\ \E n \in PowIs(scope) :
         /\ Small(NumAsF64(NumLive))
         /\ n < 0 => NumAsF64(NumLive) # Zero
         /\ NumStep("powi", [NumNoArg EXCEPT !.n = n], NumIs(NumPowi(NumLive, n)))

NPowf ==
    /\ NumCanStep
    /\ \E x \in PowFs(scope) :
         /\ Small(NumAsF64(NumLive))
         /\ IsIntegral(x)
         /\ x.n < 0 => NumAsF64(NumLive) # Zero
         /\ NumStep("powf", [NumNoArg EXCEPT !.scalar = x], NumIs(NumPowf(NumLive, x)))

NEq ==
    /\ NumCanStep
    /\ \E o \in NumOthers(scope) :
         NumStep("eq", [NumNoArg EXCEPT !.other = o], NumBool(NumEq(NumLive, o)))

NPartialCmp ==
    /\ NumCanStep
    /\ \E o \in NumOthers(scope) :
         /\ Small(NumAsF64(NumLive)) /\ Small(NumAsF64(o))
         /\ NumStep("partial_cmp", [NumNoArg EXCEPT !.other = o], NumOrd(NumPartialCmp(NumLive, o)))

NLt ==
    /\ NumCanStep
    /\ \E o \in NumOthers(scope) :
         /\ Small(NumAsF64(NumLive)) /\ Small(NumAsF64(o))
         /\ NumStep("lt", [NumNoArg EXCEPT !.other = o], NumBool(NumLt(NumLive, o)))

NLe ==
    /\ NumCanStep
    /\ \E o \in NumOthers(scope) :
         /\ Small(NumAsF64(NumLive)) /\ Small(NumAsF64(o))
         /\ NumStep("le", [NumNoArg EXCEPT !.other = o], NumBool(NumLe(NumLive, o)))

NGe ==
    /\ NumCanStep
    /\ \E o \in NumOthers(scope) :
         /\ Small(NumAsF64(NumLive)) /\ Small(NumAsF64(o))
         /\ NumStep("ge", [NumNoArg EXCEPT !.other = o], NumBool(NumGe(NumLive, o)))

NGt ==
    /\ NumCanStep
    /\ \E o \in NumOthers(scope) :
         /\ Small(NumAsF64(NumLive)) /\ Small(NumAsF64(o))
         /\ NumStep("gt", [NumNoArg EXCEPT !.other = o], NumBool(NumGt(NumLive, o)))

NAdd ==
    /\ NumCanStep
    /\ \E o \in NumOthers(scope) :
         /\ Small(NumAsF64(NumLive)) /\ Small(NumAsF64(o))
         /\ Addable(NumAsF64(NumLive), NumAsF64(o), MaxShift)
         /\ NumStep("add", [NumNoArg EXCEPT !.other = o], NumIs(NumAdd(NumLive, o)))

NAddF64 ==
    /\ NumCanStep
    /\ \E x \in Scalars(scope) :
         /\ Small(NumAsF64(NumLive))
         /\ Addable(NumAsF64(NumLive), x, MaxShift)
         /\ NumStep("add_f64", [NumNoArg EXCEPT !.scalar = x], NumIs(NumAddF64(NumLive, x)))

NSub ==
    /\ NumCanStep
    /\ \E o \in NumOthers(scope) :
         /\ Small(NumAsF64(NumLive)) /\ Small(NumAsF64(o))
         /\ Addable(NumAsF64(NumLive), NumAsF64(o), MaxShift)
         /\ NumStep("sub", [NumNoArg EXCEPT !.other = o], NumIs(NumSub(NumLive, o)))

NSubF64 ==
    /\ NumCanStep
    /\ \E x \in Scalars(scope) :
         /\ Small(NumAsF64(NumLive))
         /\ Addable(NumAsF64(NumLive), x, MaxShift)
         /\ NumStep("sub_f64", [NumNoArg EXCEPT !.scalar = x], NumIs(NumSubF64(NumLive, x)))

NMul ==
    /\ NumCanStep
    /\ \E o \in NumOthers(scope) :
         /\ Small(NumAsF64(NumLive)) /\ Small(NumAsF64(o))
         /\ NumStep("mul", [NumNoArg EXCEPT !.other = o], NumIs(NumMul(NumLive, o)))

NMulF64 ==
    /\ NumCanStep
    /\ \E x \in Scalars(scope) :
         /\ Small(NumAsF64(NumLive))
         /\ NumStep("mul_f64", [NumNoArg EXCEPT !.scalar = x], NumIs(NumMulF64(NumLive, x)))

NMulAssign ==
    /\ NumCanStep
    /\ \E x \in Scalars(scope) :
         /\ Small(NumLive.mantissa)
         /\ NumStep("mul_assign", [NumNoArg EXCEPT !.scalar = x],
                    NumIs(NumMulAssign(NumLive, x)))

NDiv ==
    /\ NumCanStep
    /\ \E o \in NumOthers(scope) :
         /\ Small(NumAsF64(NumLive)) /\ Small(NumAsF64(o))
         /\ NumAsF64(o) # Zero
         /\ NumStep("div", [NumNoArg EXCEPT !.other = o], NumIs(NumDiv(NumLive, o)))

NDivF64 ==
    /\ NumCanStep
    /\ \E x \in Scalars(scope) :
         /\ Small(NumAsF64(NumLive))
         /\ x # Zero
         /\ NumStep("div_f64", [NumNoArg EXCEPT !.scalar = x], NumIs(NumDivF64(NumLive, x)))

NumNext ==
    \/ NNew
    \/ NToPrefix
    \/ NShortened
    \/ NAbs
    \/ NNeg
    \/ NPowi
    \/ NPowf
    \/ NEq
    \/ NPartialCmp
    \/ NLt
    \/ NLe
    \/ NGe
    \/ NGt
    \/ NAdd
    \/ NAddF64
    \/ NSub
    \/ NSubF64
    \/ NMul
    \/ NMulF64
    \/ NMulAssign
    \/ NDiv
    \/ NDivF64

SpecNum == NumInit /\ [][NumNext]_vars

----------------------------------------------------------------------------
(* The state machine of prefix.rs: a caller asks for the exponent of a     *)
(* prefix and for the prefix of an i8 exponent, and feeds the answer of    *)
(* one to the other.  recv holds what the first call was given and arg     *)
(* what the last call was given: a prefix or an exponent.                  *)

\* The i8 values.
I8 == -128..127

PrefixInit ==
    /\ scope = "prefix"
    /\ op = "init"
    /\ recv = [prefix |-> "Nothing", exp |-> 0]
    /\ arg = [prefix |-> "Nothing", exp |-> 0]
    /\ res = [ok |-> FALSE, prefix |-> "Nothing", exp |-> 0]
    /\ steps = 0

\* p.exp()
PExp ==
    /\ op = "init"
    /\ \E p \in Prefixes :
         /\ op' = "exp"
         /\ recv' = [prefix |-> p, exp |-> 0]
         /\ arg' = [prefix |-> p, exp |-> 0]
         /\ res' = [ok |-> TRUE, prefix |-> p, exp |-> PrefixExp(p)]
    /\ steps' = 1
    /\ UNCHANGED scope

\* Prefix::try_from( e )
PTryFrom ==
    /\ op = "init"
    /\ \E e \in I8 :
         /\ op' = "try_from"
         /\ recv' = [prefix |-> "Nothing", exp |-> e]
         /\ arg' = [prefix |-> "Nothing", exp |-> e]
         /\ res' = PrefixTryFrom(e)
    /\ steps' = 1
    /\ UNCHANGED scope

\* Prefix::try_from( p.exp() )
PTryFromExp ==
    /\ op = "exp"
    /\ op' = "exp.try_from"
    /\ arg' = [prefix |-> "Nothing", exp |-> res.exp]
    /\ res' = PrefixTryFrom(res.exp)
    /\ steps' = 2
    /\ UNCHANGED <<scope, recv>>

\* Prefix::try_from( e ).unwrap().exp()
PExpTryFrom ==
    /\ op = "try_from"
    /\ res.ok
    /\ op' = "try_from.exp"
    /\ arg' = [prefix |-> res.prefix, exp |-> 0]
    /\ res' = [ok |-> TRUE, prefix |-> res.prefix, exp |-> PrefixExp(res.prefix)]
    /\ steps' = 2
    /\ UNCHANGED <<scope, recv>>

\* p < q and p.max( q ), with the factors of both.
PCmp ==
    /\ op = "init"
    /\ \E p \in Prefixes, q \in Prefixes :
         /\ op' = "cmp"
         /\ recv' = [prefix |-> p, exp |-> PrefixExp(p)]
         /\ arg' = [prefix |-> q, exp |-> PrefixExp(q)]
         /\ res' = [ok |-> PrefixLt(p, q), prefix |-> PrefixMax(p, q),
                    exp |-> PrefixExp(PrefixMax(p, q))]
    /\ steps' = 1
    /\ UNCHANGED scope

\* p.as_f64(), with p.exp()
PAsF64 ==
    /\ op = "init"
    /\ \E p \in Prefixes :
         /\ op' = "as_f64"
         /\ recv' = [prefix |-> p, exp |-> 0]
         /\ arg' = [prefix |-> p, exp |-> 0]
         /\ res' = [ok |-> TRUE, prefix |-> p, exp |-> PrefixExp(p),
                    val |-> PrefixAsF64(p)]
    /\ steps' = 1
    /\ UNCHANGED scope

\* p.to_latex_sym( options ), with p.to_string()
PToLatexSym ==
    /\ op = "init"
    /\ \E p \in Prefixes :
         /\ op' = "to_latex_sym"
         /\ recv' = [prefix |-> p, exp |-> 0]
         /\ arg' = [prefix |-> p, exp |-> 0]
         /\ res' = [ok |-> TRUE, prefix |-> p, exp |-> 0,
                    sym |-> PrefixToLatexSym(p), name |-> PrefixDisplay(p)]
    /\ steps' = 1
    /\ UNCHANGED scope

PrefixNext ==
    \/ PExp
    \/ PTryFrom
    \/ PTryFromExp
    \/ PExpTryFrom
    \/ PCmp
    \/ PAsF64
    \/ PToLatexSym

SpecPrefix == PrefixInit /\ [][PrefixNext]_vars

----------------------------------------------------------------------------
(* The tables of Unit as a state machine: one call, or a call on the base  *)
(* unit that Unit::base returned.                                          *)

UnitRes(unit, phys, factor, flag) ==
    [unit |-> unit, phys |-> phys, factor |-> factor, flag |-> flag]

UnitInit ==
    /\ scope = "unit"
    /\ op = "init"
    /\ recv = U("Ampere")
    /\ arg = U("Ampere")
    /\ res = UnitRes(U("Ampere"), "Current", One, FALSE)
    /\ steps = 0

\* u.phys()
UPhys ==
    /\ op = "init"
    /\ \E u \in Units :
         /\ op' = "phys"
         /\ recv' = u
         /\ arg' = u
         /\ res' = UnitRes(u, UnitPhys(u), One, FALSE)
    /\ steps' = 1
    /\ UNCHANGED scope

\* u.factor()
UFactor ==
    /\ op = "init"
    /\ \E u \in Units :
         /\ op' = "factor"
         /\ recv' = u
         /\ arg' = u
         /\ res' = UnitRes(u, UnitPhys(u), UnitFactor(u), FALSE)
    /\ steps' = 1
    /\ UNCHANGED scope

\* u.base()
UBase ==
    /\ op = "init"
    /\ \E u \in Units :
         /\ op' = "base"
         /\ recv' = u
         /\ arg' = u
         /\ res' = UnitRes(UnitBase(u), UnitPhys(u), UnitFactor(u), FALSE)
    /\ steps' = 1
    /\ UNCHANGED scope

\* u.base().phys()
UBasePhys ==
    /\ op = "base"
    /\ op' = "base.phys"
    /\ arg' = res.unit
    /\ res' = UnitRes(res.unit, UnitPhys(res.unit), One, FALSE)
    /\ steps' = 2
    /\ UNCHANGED <<scope, recv>>

\* u.base().factor()
UBaseFactor ==
    /\ op = "base"
    /\ op' = "base.factor"
    /\ arg' = res.unit
    /\ res' = UnitRes(res.unit, UnitPhys(res.unit), UnitFactor(res.unit), FALSE)
    /\ steps' = 2
    /\ UNCHANGED <<scope, recv>>

\* u.base().base()
UBaseBase ==
    /\ op = "base"
    /\ op' = "base.base"
    /\ arg' = res.unit
    /\ res' = UnitRes(UnitBase(res.unit), UnitPhys(res.unit), One, FALSE)
    /\ steps' = 2
    /\ UNCHANGED <<scope, recv>>

\* u.phys() == v.phys()
USamePhys ==
    /\ op = "init"
    /\ \E u \in Units, v \in Units :
         /\ op' = "same_phys"
         /\ recv' = u
         /\ arg' = v
         /\ res' = UnitRes(u, UnitPhys(u), One, UnitPhys(u) = UnitPhys(v))
    /\ steps' = 1
    /\ UNCHANGED scope

\* u.base() == v.base()
USameBase ==
    /\ op = "init"
    /\ \E u \in Units, v \in Units :
         /\ op' = "same_base"
         /\ recv' = u
         /\ arg' = v
         /\ res' = UnitRes(UnitBase(u), UnitPhys(u), One, UnitBase(u) = UnitBase(v))
    /\ steps' = 1
    /\ UNCHANGED scope

UnitNext ==
    \/ UPhys
    \/ UFactor
    \/ UBase
    \/ UBasePhys
    \/ UBaseFactor
    \/ UBaseBase
    \/ USamePhys
    \/ USameBase

SpecUnit == UnitInit /\ [][UnitNext]_vars

----------------------------------------------------------------------------
(* Properties of quantity.rs.                                              *)

\* The normalised form of a Qty: Kilogram only with Prefix::Nothing, Gram
\* never with Prefix::Kilo.
Canonical(q) ==
    /\ ~(q.unit.tag = "Kilogram" /\ q.number.prefix # "Nothing")
    /\ ~(q.unit.tag = "Gram" /\ q.number.prefix = "Kilo")

BinOps == {"add", "sub", "mul", "div"}

ScalarOps == {"add_f64", "sub_f64", "mul_f64", "div_f64"}

\* C1: Qty::new( number, unit ) returns a Qty; for Kilogram with a prefix
\* other than Nothing it has unit Gram and the prefix whose exponent is 3
\* more, for Gram with Kilo it has unit Kilogram and prefix Nothing, for
\* everything else the unit and prefix passed in; the mantissa is the one
\* passed in and as_f64() is the value of number times the factor of unit.
C1_NewCanonicalises ==
    op = "new" =>
        /\ res.kind = "Ok"
        /\ IF recv.unit.tag = "Kilogram" /\ recv.number.prefix # "Nothing"
           THEN /\ res.qty.unit = U("Gram")
                /\ PrefixExp(res.qty.number.prefix) = PrefixExp(recv.number.prefix) + 3
           ELSE IF recv.unit.tag = "Gram" /\ recv.number.prefix = "Kilo"
           THEN /\ res.qty.unit = U("Kilogram")
                /\ res.qty.number.prefix = "Nothing"
           ELSE /\ res.qty.unit = recv.unit
                /\ res.qty.number.prefix = recv.number.prefix
        /\ res.qty.number.mantissa = recv.number.mantissa
        /\ QtyAsF64(res.qty) = VMul(NumAsF64(recv.number), UnitFactor(recv.unit))

\* C2: every Qty an operation returns, or leaves behind after mutating it in
\* place, is in normalised form: its unit is Kilogram only with prefix
\* Nothing, and its unit is never Gram with prefix Kilo.
C2_CanonicalForm == res.kind = "Ok" => Canonical(res.qty)

\* A chained to_prefix( Kilo ) on a Qty in Gram came back in Kilogram.
C2_Witness ==
    /\ op = "to_prefix"
    /\ steps >= 2
    /\ arg.prefix = "Kilo"
    /\ recv.unit = U("Gram")
    /\ res.kind = "Ok"
    /\ res.qty.unit = U("Kilogram")
    /\ res.qty.number.prefix = "Nothing"

\* C3: Qty::new returns a Qty for every Num and Unit, and to_prefix, to_unit,
\* shortened and neg never panic on any Qty.
C3_NeverPanics ==
    /\ op = "new" => res.kind = "Ok"
    /\ op \in {"to_prefix", "to_unit", "shortened", "neg"} => res.kind # "Panic"

\* C4: +, -, * and / on two Qty of different physical quantities abort; no
\* Qty is produced.
C4_MismatchAborts ==
    (op \in BinOps /\ QtyPhys(recv) # QtyPhys(arg.other)) => res.kind = "Panic"

C6_BaseUnitArithmetic ==
    LET q == QtyAsF64(recv)
        r == QtyAsF64(arg.other)
        s == arg.scalar
        same == QtyPhys(recv) = QtyPhys(arg.other)
    IN  /\ (op \in BinOps /\ same) \/ op \in ScalarOps => res.kind = "Ok"
        /\ op = "add" /\ same => QtyAsF64(res.qty) = VAdd(q, r)
        /\ op = "sub" /\ same => QtyAsF64(res.qty) = VSub(q, r)
        /\ op = "mul" /\ same => QtyAsF64(res.qty) = VMul(q, r)
        /\ op = "div" /\ same => QtyAsF64(res.qty) = VDiv(q, r)
        /\ op = "add_f64" => QtyAsF64(res.qty) = VAdd(q, s)
        /\ op = "sub_f64" => QtyAsF64(res.qty) = VSub(q, s)
        /\ op = "mul_f64" => QtyAsF64(res.qty) = VMul(q, s)
        /\ op = "div_f64" => QtyAsF64(res.qty) = VDiv(q, s)

\* 1 mg + 4.0 is 4 000 001 mg.
C6_Witness ==
    /\ op = "add_f64"
    /\ recv = [number |-> NumWithPrefix(NumNew(Dec(1, 0)), "Milli"), unit |-> U("Gram")]
    /\ arg.scalar = Dec(4, 0)
    /\ res.kind = "Ok"
    /\ res.qty = [number |-> NumWithPrefix(NumNew(Dec(4000001, 0)), "Milli"),
                  unit   |-> U("Gram")]

\* C7: q.to_unit( u ) returns Err( UnitError::UnitMismatch ) with q's unit and
\* u, in this order, exactly when the physical quantities of q's unit and u
\* differ; then there is no converted value and no panic, and q is as it was.
C7_MismatchIsAnError ==
    op = "to_unit" =>
        /\ (res.kind = "Err") <=> (QtyPhys(recv) # UnitPhys(arg.unit))
        /\ res.kind = "Err" =>
              /\ res.err = "UnitMismatch"
              /\ res.units = <<recv.unit, arg.unit>>
              /\ res.qty = NoQty
              /\ Live = recv

\* A Qty in Kilogram was asked for Second.
C7_Witness ==
    /\ op = "to_unit"
    /\ recv.unit = U("Kilogram")
    /\ arg.unit = U("Second")
    /\ res.kind = "Err"
    /\ res.units = <<U("Kilogram"), U("Second")>>

\* C8: when q.to_unit( u ) returns Ok( r ), the mantissa of r is that of q
\* times factor( q.unit ) / factor( u ), r.as_f64() is q.as_f64(), r == q, and
\* r.to_unit( q.unit ) is again a Qty that equals q.
C8_ConversionPreservesQuantity ==
    (op = "to_unit" /\ res.kind = "Ok") =>
        LET r    == res.qty
            back == QtyToUnit(r, recv.unit)
        IN  /\ r.number.mantissa =
                  VMul(recv.number.mantissa,
                       VDiv(UnitFactor(recv.unit), UnitFactor(arg.unit)))
            /\ QtyAsF64(r) = QtyAsF64(recv)
            /\ QtyEq(r, recv)
            /\ back.kind = "Ok"
            /\ QtyEq(back.qty, recv)

\* A Qty in Tonne, not zero, was converted to Gram.
C8_Witness ==
    /\ op = "to_unit"
    /\ recv.unit = U("Tonne")
    /\ arg.unit = U("Gram")
    /\ recv.number.mantissa # Zero
    /\ res.kind = "Ok"
    /\ res.qty.number.mantissa # recv.number.mantissa

C10_CustomLabelsIncompatible ==
    /\ (/\ op = "to_unit"
        /\ recv.unit.tag = "Custom" /\ arg.unit.tag = "Custom"
        /\ recv.unit.label # arg.unit.label)
       => (res.kind = "Err" /\ res.err = "UnitMismatch")
    /\ (/\ op = "eq"
        /\ recv.unit.tag = "Custom" /\ arg.other.unit.tag = "Custom"
        /\ recv.unit.label # arg.other.unit.label)
       => (res.kind = "Bool" /\ ~res.flag)

\* C11: a == b on two Qty is true exactly when their units measure the same
\* physical quantity and a.as_f64() is b.as_f64().
C11_QtyEquality ==
    op = "eq" =>
        /\ res.kind = "Bool"
        /\ res.flag <=> (/\ UnitPhys(recv.unit) = UnitPhys(arg.other.unit)
                         /\ QtyAsF64(recv) = QtyAsF64(arg.other))

\* 1 Mg == 1 t, and 1 ks == 1 t is false though both are 1000 base units.
C11_Witness ==
    /\ op = "eq"
    /\ arg.other = [number |-> NumNew(Dec(1, 0)), unit |-> U("Tonne")]
    /\ \/ /\ recv = [number |-> NumWithPrefix(NumNew(Dec(1, 0)), "Mega"),
                     unit   |-> U("Gram")]
          /\ res.flag
       \/ /\ recv = [number |-> NumWithPrefix(NumNew(Dec(1, 0)), "Kilo"),
                     unit   |-> U("Second")]
          /\ QtyAsF64(recv) = QtyAsF64(arg.other)
          /\ ~res.flag

\* C23: for every Qty q, -q is a Qty whose as_f64() is -q.as_f64() and whose
\* unit and prefix are those of q.
C23_NegKeepsRepresentation ==
    op = "neg" =>
       /\ res.kind = "Ok"
       /\ QtyAsF64(res.qty) = VNeg(QtyAsF64(recv))
       /\ res.qty.unit = recv.unit
       /\ res.qty.number.prefix = recv.number.prefix

\* C24: for every Qty q, q.abs() is a Qty whose as_f64() is |q.as_f64()| and
\* whose unit and prefix are those of q; and q.abs() == q when q >= 0.
C24_AbsKeepsRepresentation ==
    op = "abs" =>
       /\ res.kind = "Ok"
       /\ QtyAsF64(res.qty) = VAbs(QtyAsF64(recv))
       /\ res.qty.unit = recv.unit
       /\ res.qty.number.prefix = recv.number.prefix
       /\ QtyAsF64(recv).n >= 0 => QtyEq(res.qty, recv)

\* C25: when q.shortened() returns Ok( r ), r has the unit of q and
\* r.as_f64() = q.as_f64().
C25_ShortenedKeepsUnit ==
    (op = "shortened" /\ res.kind = "Ok") =>
       /\ res.qty.unit = recv.unit
       /\ QtyAsF64(res.qty) = QtyAsF64(recv)

\* C26: when q.to_prefix( p ) returns, the result has the as_f64() of q and
\* is == q, also when Qty::new rewrote its unit or prefix.
C26_ToPrefixPreservesValue ==
    (op = "to_prefix" /\ res.kind = "Ok") =>
       /\ QtyAsF64(res.qty) = QtyAsF64(recv)
       /\ QtyEq(res.qty, recv)

\* A Kilogram quantity that is not zero was asked for in Milli and came back
\* in Gram without a prefix.
C26_Witness ==
    /\ op = "to_prefix"
    /\ recv.unit = U("Kilogram")
    /\ recv.number.mantissa # Zero
    /\ arg.prefix = "Milli"
    /\ res.kind = "Ok"
    /\ res.qty.unit = U("Gram")
    /\ res.qty.number.prefix = "Nothing"

\* C27: a == b exactly when a.partial_cmp( b ) is Some( Equal ); a <= b and
\* b <= a together imply a == b; so two quantities of different physical
\* quantities are never ordered as equal.
C27_OrderConsistentWithEq ==
    /\ op = "partial_cmp" =>
          (res.ord = "Equal" <=> QtyEq(recv, arg.other))
    /\ op = "le" =>
          ((res.flag /\ QtyLe(arg.other, recv)) => QtyEq(recv, arg.other))
    /\ op = "ge" =>
          ((res.flag /\ QtyGe(arg.other, recv)) => QtyEq(recv, arg.other))

\* C29: after q *= s the Qty has the unit, the prefix and the as_f64() of
\* q * s, and the unit and the prefix q had before; and its number has the
\* prefix and the value of q.number() * s.
C29_MulAssignAgreesWithMul ==
    op = "mul_assign" =>
       LET prod == QtyMulF64(recv, arg.scalar)
           num  == NumMulF64(recv.number, arg.scalar)
       IN  /\ res.kind = "Ok"
           /\ prod.kind = "Ok"
           /\ res.qty.unit = prod.qty.unit
           /\ res.qty.number.prefix = prod.qty.number.prefix
           /\ QtyAsF64(res.qty) = QtyAsF64(prod.qty)
           /\ res.qty.unit = recv.unit
           /\ res.qty.number.prefix = recv.number.prefix
           /\ res.qty.number.prefix = num.prefix
           /\ NumAsF64(res.qty.number) = NumAsF64(num)

\* -2 mg was scaled by 4 in place to -8 mg.
C29_Witness ==
    /\ op = "mul_assign"
    /\ recv = [number |-> NumWithPrefix(NumNew(Dec(-2, 0)), "Milli"),
               unit   |-> U("Gram")]
    /\ arg.scalar = Dec(4, 0)
    /\ res.kind = "Ok"
    /\ res.qty = [number |-> NumWithPrefix(NumNew(Dec(-8, 0)), "Milli"),
                  unit   |-> U("Gram")]

----------------------------------------------------------------------------
(* Properties of number.rs.                                                *)

\* C12: == on two Num is true exactly when their as_f64() are equal, and <,
\* <=, >, >= and partial_cmp are the order of their as_f64().
C12_NumComparesValues ==
    LET a == NumAsF64(recv)
        b == NumAsF64(arg.other)
    IN  /\ op = "eq" => (res.kind = "Bool" /\ (res.flag <=> a = b))
        /\ op = "lt" => (res.kind = "Bool" /\ (res.flag <=> VLt(a, b)))
        /\ op = "le" => (res.kind = "Bool" /\ (res.flag <=> ~VLt(b, a)))
        /\ op = "gt" => (res.kind = "Bool" /\ (res.flag <=> VLt(b, a)))
        /\ op = "ge" => (res.kind = "Bool" /\ (res.flag <=> ~VLt(a, b)))
        /\ op = "partial_cmp" =>
              /\ res.kind = "Ord"
              /\ res.ord = "Less" <=> VLt(a, b)
              /\ res.ord = "Equal" <=> a = b
              /\ res.ord = "Greater" <=> VLt(b, a)

\* 2 k == 2e6 m.
C12_Witness ==
    /\ op = "eq"
    /\ recv = NumWithPrefix(NumNew(Dec(2, 0)), "Kilo")
    /\ arg.other = NumWithPrefix(NumNew(Dec(2, 6)), "Milli")
    /\ res.flag

\* C13: n.to_prefix( p ) has prefix p, the mantissa of n times
\* 10^( n.prefix().exp() - p.exp() ) and the as_f64() of n; a further
\* to_prefix( q ) gives what n.to_prefix( q ) gives, and n.to_prefix of the
\* prefix of n is n.
C13_ToPrefixPreservesValue ==
    op = "to_prefix" =>
        /\ res.kind = "Ok"
        /\ res.num.prefix = arg.prefix
        /\ res.num.mantissa =
              VMul(recv.mantissa, Dec(1, PrefixExp(recv.prefix) - PrefixExp(arg.prefix)))
        /\ NumAsF64(res.num) = NumAsF64(recv)
        /\ \A q \in Prefixes : NumToPrefix(res.num, q) = NumToPrefix(recv, q)
        /\ arg.prefix = recv.prefix => res.num = recv

\* A Num, not zero, was brought to another prefix twice.
C13_Witness ==
    /\ op = "to_prefix"
    /\ steps = 2
    /\ recv.mantissa # Zero
    /\ recv.prefix = "Centi"
    /\ arg.prefix = "Kilo"
    /\ res.num.mantissa # recv.mantissa

\* The exponent Num::shortened aims at, by the magnitude of the mantissa:
\* prefix.exp() + floor( log10( |mantissa| ) / 3 ) * 3.
TargetExp(num) ==
    PrefixExp(num.prefix) + FloorDiv3Times3(FloorLog10(VAbs(num.mantissa)))

\* C14: when shortened() of a Num with a mantissa that is not zero, positive
\* or negative, returns Ok( r ), r has the value of the receiver, a mantissa
\* with 1 <= |mantissa| < 1000, and the prefix of the exponent
\* prefix.exp() + floor( log10( |mantissa| ) / 3 ) * 3.
C14_ShortenedByMagnitude ==
    (op = "shortened" /\ recv.mantissa # Zero /\ res.kind = "Ok") =>
        LET m == VAbs(res.num.mantissa)
        IN  /\ NumAsF64(res.num) = NumAsF64(recv)
            /\ ~VLt(m, One)
            /\ VLt(m, Dec(1, 3))
            /\ PrefixExp(res.num.prefix) = TargetExp(recv)

\* C15: shortened() of a Num with mantissa zero returns Ok with mantissa 0 and
\* prefix Nothing, whatever the prefix of the receiver.
C15_ShortenedZero ==
    (op = "shortened" /\ recv.mantissa = Zero) =>
        /\ res.kind = "Ok"
        /\ res.num = NumNew(Zero)

\* 0 M was shortened.
C15_Witness ==
    /\ op = "shortened"
    /\ recv = NumWithPrefix(NumNew(Zero), "Mega")
    /\ res.kind = "Ok"
    /\ res.num.prefix = "Nothing"

\* C16: when n.shortened() returns Ok( s ), s.shortened() returns Ok of the
\* mantissa and the prefix of s.
C16_ShortenedIdempotent ==
    (op = "shortened" /\ res.kind = "Ok") =>
        \A b \in Builds : NumShortened(res.num, b) = NumOk(res.num)

\* 1234 c was shortened to 1.234 da.
C16_Witness ==
    /\ op = "shortened"
    /\ recv = NumWithPrefix(NumNew(Dec(1234, 0)), "Centi")
    /\ res.kind = "Ok"
    /\ res.num = NumWithPrefix(NumNew(Dec(1234, -3)), "Deca")

\* C17: shortened() never panics; it returns Err whenever the exponent
\* prefix.exp() + exps is above MAX_EXP or below MIN_EXP, and when it returns
\* Ok the prefix is the one of that exponent (for a positive mantissa, where
\* exps is floor( log10( mantissa ) / 3 ) * 3).
C17_ShortenedOutOfRangeIsErr ==
    (op = "shortened" /\ recv.mantissa.n > 0) =>
        /\ res.kind # "Panic"
        /\ (TargetExp(recv) > MAX_EXP \/ TargetExp(recv) < MIN_EXP) => res.kind = "Err"
        /\ res.kind = "Ok" => PrefixExp(res.num.prefix) = TargetExp(recv)

\* C28: shortened() of a Num with a mantissa that is not zero and any of the
\* 25 prefixes returns Ok whenever the exponent
\* prefix.exp() + floor( log10( |mantissa| ) / 3 ) * 3 is within
\* MIN_EXP..MAX_EXP.
C28_ShortenedFailsOnlyOutOfRange ==
    (/\ op = "shortened"
     /\ recv.mantissa # Zero
     /\ TargetExp(recv) >= MIN_EXP
     /\ TargetExp(recv) <= MAX_EXP) => res.kind = "Ok"

\* The prefix of the larger exponent.
LargerByExp(p, q) == IF PrefixExp(p) >= PrefixExp(q) THEN p ELSE q

\* C18: for two Num a, b the prefix of a + b, a - b, a * b and a / b is the
\* one of a.prefix() and b.prefix() with the larger exponent, and the value
\* is a.as_f64() op b.as_f64(); for an f64 s the prefix of a op s is
\* a.prefix() and the value is a.as_f64() op s.
C18_NumArithmetic ==
    LET a == NumAsF64(recv)
        b == NumAsF64(arg.other)
        x == arg.scalar
        r == NumAsF64(res.num)
    IN  /\ op \in BinOps =>
              /\ res.kind = "Ok"
              /\ res.num.prefix = LargerByExp(recv.prefix, arg.other.prefix)
        /\ op \in ScalarOps =>
              /\ res.kind = "Ok"
              /\ res.num.prefix = recv.prefix
        /\ op = "add" => r = VAdd(a, b)
        /\ op = "sub" => r = VSub(a, b)
        /\ op = "mul" => r = VMul(a, b)
        /\ op = "div" => r = VDiv(a, b)
        /\ op = "add_f64" => r = VAdd(a, x)
        /\ op = "sub_f64" => r = VSub(a, x)
        /\ op = "mul_f64" => r = VMul(a, x)
        /\ op = "div_f64" => r = VDiv(a, x)

\* 2 m + 2 k is 2.000002 k.
C18_Witness ==
    /\ op = "add"
    /\ recv = NumWithPrefix(NumNew(Dec(2, 0)), "Milli")
    /\ arg.other = NumWithPrefix(NumNew(Dec(2, 0)), "Kilo")
    /\ res.num = NumWithPrefix(NumNew(Dec(2000002, -6)), "Kilo")

\* C19: n.abs(), n.powi( k ), n.powf( x ) and -n have the prefix of n and the
\* values |n.as_f64()|, n.as_f64()^k, n.as_f64()^x and -n.as_f64(); -(-n) has
\* the prefix and the value of n.
C19_NumUnaryKeepsPrefix ==
    LET v == NumAsF64(recv)
        r == NumAsF64(res.num)
    IN  /\ op \in {"abs", "powi", "powf", "neg"} =>
              /\ res.kind = "Ok"
              /\ res.num.prefix = recv.prefix
        /\ op = "abs" => r = (IF VLt(v, Zero) THEN VNeg(v) ELSE v)
        /\ op = "powi" => r = VPowI(v, arg.n)
        /\ op = "powf" => r = VPowF(v, arg.scalar)
        /\ op = "neg" =>
              /\ r = VSub(Zero, v)
              /\ NumNeg(res.num).prefix = recv.prefix
              /\ NumAsF64(NumNeg(res.num)) = v

\* -2 k was negated.
C19_Witness ==
    /\ op = "neg"
    /\ recv = NumWithPrefix(NumNew(Dec(-2, 0)), "Kilo")
    /\ res.num = NumWithPrefix(NumNew(Dec(2, 0)), "Kilo")

----------------------------------------------------------------------------
(* Properties of prefix.rs.                                                *)

\* C20: Prefix::try_from( p.exp() ) is Ok( p ) for every prefix p; no two
\* prefixes have the same exponent; try_from( e ) is Err( TryFromExp( e ) )
\* for every i8 e that is the exponent of no prefix; every exponent of a
\* prefix is in MIN_EXP..MAX_EXP = -30..30, and Quecto and Quetta have -30
\* and 30.
C20_PrefixExpBijection ==
    /\ op = "exp" =>
          /\ res.exp \in MIN_EXP..MAX_EXP
          /\ \A q \in Prefixes : PrefixExp(q) = res.exp => q = recv.prefix
          /\ recv.prefix = "Quecto" => res.exp = MIN_EXP
          /\ recv.prefix = "Quetta" => res.exp = MAX_EXP
    /\ op = "exp.try_from" => (res.ok /\ res.prefix = recv.prefix)
    /\ op = "try_from" =>
          /\ res.ok <=> \E p \in Prefixes : PrefixExp(p) = recv.exp
          /\ ~res.ok => res.exp = recv.exp
    /\ op = "try_from.exp" => res.exp = recv.exp
    /\ MIN_EXP = -30 /\ MAX_EXP = 30

\* The exponent of Deci went back to Deci.
C20_Witness ==
    /\ op = "exp.try_from"
    /\ recv.prefix = "Deci"
    /\ arg.exp = -1
    /\ res.ok
    /\ res.prefix = "Deci"

\* C21: for all prefixes p and q, p < q by the derived ordering exactly when
\* p.exp() < q.exp(); p.as_f64() is 10^p.exp() for every p; and the prefix
\* p.max( q ) that arithmetic chooses has a factor at least that of p and of q.
C21_PrefixOrderByExp ==
    /\ op = "cmp" =>
          /\ res.ok <=> recv.exp < arg.exp
          /\ res.prefix \in {recv.prefix, arg.prefix}
          /\ VLe(PrefixAsF64(recv.prefix), PrefixAsF64(res.prefix))
          /\ VLe(PrefixAsF64(arg.prefix), PrefixAsF64(res.prefix))
    /\ op = "as_f64" => res.val = VPowI(Dec(10, 0), res.exp)

\* Milli < Centi, and Centi is the larger of the two.
C21_Witness ==
    /\ op = "cmp"
    /\ recv.prefix = "Milli"
    /\ arg.prefix = "Centi"
    /\ res.ok
    /\ res.prefix = "Centi"

\* C30: for every prefix p other than Nothing, p.to_latex_sym( options ) is a
\* backslash followed by the display name of p; Nothing gives the empty
\* string; and no two prefixes give the same LaTeX command.
C30_LatexSymNamesPrefix ==
    op = "to_latex_sym" =>
       /\ recv.prefix # "Nothing" => res.sym = "\\" \o res.name
       /\ recv.prefix = "Nothing" => res.sym = ""
       /\ \A q \in Prefixes :
             q # recv.prefix => PrefixToLatexSym(q) # res.sym

----------------------------------------------------------------------------
(* Properties of unit.rs.                                                  *)

\* C22: two units (custom units included) of the same physical quantity have
\* the same base unit; and for every unit u, u.base() measures what u
\* measures, has the factor 1 and is its own base unit.
C22_UnitTablesConsistent ==
    /\ op = "same_base" =>
          (UnitPhys(recv) = UnitPhys(arg) => res.flag)
    /\ op = "base.phys" => res.phys = UnitPhys(recv)
    /\ op = "base.factor" => res.factor = One
    /\ op = "base.base" => res.unit = UnitBase(recv)

=============================================================================
